---------------------------- MODULE Spec2Model ----------------------------
(***************************************************************************)
(* Verification model of BGHMatcher (Generalized Hough matcher driven by   *)
(* binary-gradient encodings): the pixel encoder cmp8NeighborsGTRng, the   *)
(* membership set T_256_flags, the table builder create_ghough_table and   *)
(* the two voting sweeps apply_ghough_transform (bounded) and              *)
(* apply_ghough_transform_allpix (range-checked).                          *)
(*                                                                         *)
(* Conventions.  An image (cv::Mat) is a record [rows, cols, pix] with pix *)
(* a function on <<row, col>>.  A cv::Point is a tuple <<x, y>>.  A scale  *)
(* (double) is carried in hundredths: 100 stands for 1.0, 10 for 0.1.      *)
(***************************************************************************)
EXTENDS Integers, Sequences, FiniteSets, TLC

VARIABLES
    rsrc,     \* encoder: grayscale input image
    rng,      \* encoder: range threshold (uint8_t)
    rdst,     \* encoder: encoded output image
    rbgrad,   \* builder: encoded template image handed to create_ghough_table
    rflags,   \* builder: membership set (T_256_flags)
    scale,    \* builder: requested scale, in hundredths
    rtable,   \* the T_ghough_table object
    rimg,     \* sweep: live encoded image
    rout,     \* sweep: accumulator image
    stray,    \* sweep: targets of writes that fell outside the accumulator
    visited,  \* sweep: number of source pixels the two loops have visited
    policy,   \* sweep: "none", "bounded" or "allpix"
    adj,      \* membership set: adjacency mask handed to create_adjacent_bits_set
    pending,  \* reordered sweep: the vote additions <<i, j, k>> not yet applied
    ubmode,   \* reordered sweep: what a write outside the accumulator does
    cell,     \* one accumulator cell (uint16_t) followed through a sweep
    tmag,     \* gradient: magnitude image (temp_mag)
    tang,     \* gradient: angle image (temp_ang), in AngleUnits-ths of a full turn
    gthr,     \* gradient: magnitude threshold mag_thr, in hundredths
    gstep,    \* gradient: requested ang_step
    rmod,     \* gradient: image that apply_sobel_gradient_mask modifies
    rmgo,     \* gradient: masked orientation image
    knobs,    \* capture loop: the Knobs object (pre-blur, Sobel size index, one-shot operation flag)
    nfile,    \* capture loop: index of the current template file
    live,     \* capture loop: kernel sizes applied to the latest live frame
    opcall,   \* capture loop: what the latest call of get_op_flag gave (its result and op_id)
    panel,    \* the Knobs object's display settings (clip limit, channel, image scale index)
    pc        \* position of the driver: "init", "encoded", "flagged", "built",
              \* "rebuilt", "voting", "voted", "cell", "masked", "oriented",
              \* "pass", "keys", "done", "knobs"

encVars   == <<rsrc, rng, rdst>>
buildVars == <<rbgrad, rflags, scale, rtable>>
sweepVars == <<rimg, rout, stray, visited, policy>>
\* state of the operations that the encoder, the builder and the sweeps leave alone
gradVars  == <<tmag, tang, gthr, gstep, rmod, rmgo>>
loopVars  == <<knobs, nfile, live, opcall, panel>>
restVars  == <<adj, pending, ubmode, cell, gradVars, loopVars>>
vars      == <<rsrc, rng, rdst, rbgrad, rflags, scale, rtable, rimg, rout, stray, visited, policy,
               adj, pending, ubmode, cell, tmag, tang, gthr, gstep, rmod, rmgo,
               knobs, nfile, live, opcall, panel, pc>>

----------------------------------------------------------------------------
(* Bounds of the model *)

\* dimensions of the encoder's input images range over 1..MaxDim
MaxDim == 3
\* an input image is a background with at most MaxSpots deviating pixels
MaxSpots == 2
\* template dimensions in the sweep specification range over 1..MaxTplDim
MaxTplDim == 3
\* encoded images (templates of the builder, live images of the sweeps) have
\* sides in 1..MaxSide and at most MaxArea pixels
MaxSide == 4
MaxArea == 12
\* side of the largest uniform template: wide enough for the smallest scale
\* to send 19 x 19 pixels to the offset (0, 0)
MaxWide == 21
\* gradient images are one row of GradPix pixels
GradPix == 2
\* side of the square images of the single-pixel scenario
SceneDim == 9
\* reordered sweeps: template sides in 1..MaxParDim, live sides in 1..MaxParDim + 2,
\* at most MaxVotes vote additions
MaxParDim == 2
MaxVotes == 6

----------------------------------------------------------------------------
(* Images *)

Cells(r, c) == (0 .. r - 1) \X (0 .. c - 1)

\* cv::Mat::zeros(size, type)
Zeros(r, c) == [rows |-> r, cols |-> c, pix |-> [p \in Cells(r, c) |-> 0]]

\* a Mat that holds no data (default constructed)
NoImage == Zeros(0, 0)

\* subsets of S with at most n elements
RECURSIVE SubsetsUpTo(_, _)
SubsetsUpTo(S, n) ==
    IF n = 0 THEN {{}}
    ELSE LET smaller == SubsetsUpTo(S, n - 1)
         IN  smaller \cup {T \cup {x} : T \in smaller, x \in S}

\* the r x c image that is bg everywhere but on the cells of DOMAIN f, which hold f
Painted(r, c, bg, f) ==
    [rows |-> r, cols |-> c,
     pix |-> [p \in Cells(r, c) |-> IF p \in DOMAIN f THEN f[p] ELSE bg]]

\* img is an r x c image that is bg everywhere but on at most n cells, which hold
\* values of fgs
IsSparseImage(img, r, c, bg, fgs, n) ==
    \E S \in SubsetsUpTo(Cells(r, c), n) : \E f \in [S -> fgs] : img = Painted(r, c, bg, f)

Transpose(img) ==
    [rows |-> img.cols, cols |-> img.rows,
     pix |-> [p \in Cells(img.cols, img.rows) |-> img.pix[<<p[2], p[1]>>]]]

Max2(a, b) == IF a >= b THEN a ELSE b
Min2(a, b) == IF a <= b THEN a ELSE b

RECURSIVE SetMax(_)
SetMax(S) == LET x == CHOOSE y \in S : TRUE
             IN  IF S = {x} THEN x ELSE Max2(x, SetMax(S \ {x}))
RECURSIVE SetMin(_)
SetMin(S) == LET x == CHOOSE y \in S : TRUE
             IN  IF S = {x} THEN x ELSE Min2(x, SetMin(S \ {x}))

----------------------------------------------------------------------------
(* Pixel encoder: cmp8NeighborsGTRng<uint8_t> *)

\* the 8 neighbours in bit order 0..7: (drow, dcol) of 0p, pp, p0, pn, 0n, nn, n0, np
NeighborOffsetsMirrored ==
    << <<0, -1>>, <<1, -1>>, <<1, 0>>, <<1, 1>>, <<0, 1>>, <<-1, 1>>, <<-1, 0>>, <<-1, -1>> >>
NeighborOffsets ==
    << <<0, 1>>, <<1, 1>>, <<1, 0>>, <<1, -1>>, <<0, -1>>, <<-1, -1>>, <<-1, 0>>, <<-1, 1>> >>

Neighbor(img, i, j, k) == img.pix[<<i + NeighborOffsets[k][1], j + NeighborOffsets[k][2]>>]

\* the pixels the two loops visit: i in [1, rows-1), j in [1, cols-1)
EncInterior(img) == (1 .. img.rows - 2) \X (1 .. img.cols - 2)

\* rdst = cv::Mat::zeros(rsrc.size(), CV_8U)
EncDstCopy(img) == img
EncDstInit(img) == Zeros(img.rows, img.cols)

\* "greater than" mask of the 8 neighbours
LTMask(img, i, j) ==
    LET q == img.pix[<<i, j>>]
        bit(k) == IF q < Neighbor(img, i, j, k) THEN 2 ^ (k - 1) ELSE 0
    IN  bit(1) + bit(2) + bit(3) + bit(4) + bit(5) + bit(6) + bit(7) + bit(8)
GTMask(img, i, j) ==
    LET q == img.pix[<<i, j>>]
        bit(k) == IF q > Neighbor(img, i, j, k) THEN 2 ^ (k - 1) ELSE 0
    IN  bit(1) + bit(2) + bit(3) + bit(4) + bit(5) + bit(6) + bit(7) + bit(8)

\* if ((umax - umin) >= rng)
RangeGateStrict(umax, umin, thr) == (umax - umin) > thr
RangeGate(umax, umin, thr) == (umax - umin) >= thr

\* body of the inner loop: the value written for interior pixel (i, j)
EncPixel(img, i, j, thr) ==
    LET q    == img.pix[<<i, j>>]
        nbrs == {Neighbor(img, i, j, k) : k \in 1 .. 8}
        umax == IF thr > 0 THEN SetMax(nbrs \cup {q}) ELSE q
        umin == IF thr > 0 THEN SetMin(nbrs \cup {q}) ELSE q
    IN  IF RangeGate(umax, umin, thr) THEN GTMask(img, i, j) ELSE 0

cmp8NeighborsGTRng(img, thr) ==
    LET d == EncDstInit(img)
    IN  [d EXCEPT !.pix = [p \in DOMAIN d.pix |->
                              IF p \in EncInterior(img)
                              THEN EncPixel(img, p[1], p[2], thr)
                              ELSE d.pix[p]]]

----------------------------------------------------------------------------
(* Membership set: T_256_flags, 256 bit flags, modelled as the set of the   *)
(* byte values whose flag is set                                            *)

Bytes == 0 .. 255

\* T_256_flags(): all flags clear
FlagsNone == {}
\* set_all()
FlagsAll == Bytes
\* set(n), clr(n), get(n)
FlagsSet(f, n) == f \cup {n}
FlagsClr(f, n) == f \ {n}
FlagsGet(f, n) == n \in f

\* bit k (0 = least significant) of the natural number a
Bit(a, k) == (a \div (2 ^ k)) % 2
\* a | b on bytes
OrByte(a, b) ==
    LET o(k) == IF Bit(a, k) = 1 \/ Bit(b, k) = 1 THEN 2 ^ k ELSE 0
    IN  o(0) + o(1) + o(2) + o(3) + o(4) + o(5) + o(6) + o(7)

\* enum of adjacency masks
N8_3ADJ == 4
N8_4ADJ == 8
N8_5ADJ == 16

\* the byte marked for run length i + 1 and rotation j
RotBitMaskNoWrap(i, j) == ((((2 ^ (i + 1)) - 1) % 256) * (2 ^ j)) % 256
RotBitMask(i, j) ==
    LET bit_mask       == ((2 ^ (i + 1)) - 1) % 256
        rot_bit_mask_L == (bit_mask * (2 ^ j)) % 256
        rot_bit_mask_R == bit_mask \div (2 ^ (8 - j))
    IN  OrByte(rot_bit_mask_L, rot_bit_mask_R)

create_adjacent_bits_set(f, mask) ==
    f \cup { RotBitMask(i, j) : i \in {k \in 0 .. 7 : Bit(mask, k) = 1}, j \in 0 .. 7 }

----------------------------------------------------------------------------
(* Gradient magnitude mask and orientation image: apply_sobel_gradient_mask *)
(* and create_masked_gradient_orientation_img, from the magnitude and angle *)
(* images that cv::Sobel and cv::cartToPolar hand them                      *)

\* a & b on bytes
AndByte(a, b) ==
    LET o(k) == IF Bit(a, k) = 1 /\ Bit(b, k) = 1 THEN 2 ^ k ELSE 0
    IN  o(0) + o(1) + o(2) + o(3) + o(4) + o(5) + o(6) + o(7)

\* minMaxLoc(temp_mag, nullptr, &qmax)
MaxOf(mag) == SetMax({mag.pix[p] : p \in DOMAIN mag.pix})

\* temp_mask = (temp_mag > (qmax * mag_thr)): 255 where the comparison holds
MagMask(mag, thr) ==
    [p \in DOMAIN mag.pix |-> IF mag.pix[p] * 100 > MaxOf(mag) * thr THEN 255 ELSE 0]

\* the guard of apply_sobel_gradient_mask: (mag_thr >= 0.0) && (mag_thr < 1.0)
MaskGuard(thr) == (thr >= 0) /\ (thr < 100)

apply_sobel_gradient_mask(mag, mod, thr) ==
    IF MaskGuard(thr)
    THEN [mod EXCEPT !.pix = [p \in DOMAIN mod.pix |-> AndByte(MagMask(mag, thr)[p], mod.pix[p])]]
    ELSE mod

ANG_STEP_MAX == 254
ANG_STEP_MIN == 4

\* the two clamps of ang_step
ClampAngStep(a) ==
    LET hi == IF a > ANG_STEP_MAX THEN ANG_STEP_MAX ELSE a
    IN  IF hi < ANG_STEP_MIN THEN ANG_STEP_MIN ELSE hi

\* angles are held in AngleUnits-ths of CV_2PI
AngleUnits == 1024

\* n / d rounded to the nearest integer, a tie to the even one (cvRound)
RoundHalfEven(n, d) ==
    LET q == n \div d
        r == n % d
    IN  IF 2 * r < d THEN q
        ELSE IF 2 * r > d THEN q + 1
        ELSE IF q % 2 = 0 THEN q ELSE q + 1

\* saturate_cast<uchar>
SaturateU8(x) == IF x < 0 THEN 0 ELSE IF x > 255 THEN 255 ELSE x

\* temp_ang.convertTo(rmgo, CV_8U, ang_step / CV_2PI, 2.0) on one angle
AngCode(a, ang_step) == SaturateU8(RoundHalfEven(ang_step * a, AngleUnits) + 2)

create_masked_gradient_orientation_img(mag, ang, thr, step) ==
    LET temp_mask == MagMask(mag, thr)
        ang_step  == ClampAngStep(step)
    IN  [rows |-> ang.rows, cols |-> ang.cols,
         pix |-> [p \in DOMAIN ang.pix |->
                     AndByte(AngCode(ang.pix[p], ang_step), temp_mask[p])]]

----------------------------------------------------------------------------
(* The Knobs object and the capture loop's use of it *)

OP_NONE       == 0
OP_TEMPLATE   == 1
OP_UPDATE     == 2
OP_RECORD     == 3
OP_MAKE_VIDEO == 4

\* limits of inc_pre_blur and dec_pre_blur
PRE_BLUR_MAX == 35
PRE_BLUR_MIN == 1

\* vksize({ -1, 1, 3, 5, 7 }), indexed from 0
vksize == <<-1, 1, 3, 5, 7>>

\* Knobs(): kpreblur 7, nksize 4, no operation required
NewKnobs == [kpreblur |-> 7, nksize |-> 4, is_op_required |-> FALSE, op_id |-> OP_NONE]

get_pre_blur(k) == k.kpreblur
get_ksize(k)    == vksize[k.nksize + 1]

inc_pre_blur(k) == IF k.kpreblur < PRE_BLUR_MAX THEN k.kpreblur + 2 ELSE k.kpreblur
dec_pre_blur(k) == IF k.kpreblur > PRE_BLUR_MIN THEN k.kpreblur - 2 ELSE k.kpreblur
inc_ksize(k)    == IF k.nksize < Len(vksize) - 1 THEN k.nksize + 1 ELSE k.nksize
dec_ksize(k)    == IF k.nksize > 0 THEN k.nksize - 1 ELSE k.nksize

\* the keys of handle_keypress that touch the modelled fields; "1" stands for
\* the keys that set a display knob only, "?" for the keys that are not valid
Keys == {"=", "-", "}", "{", "r", "t", "u", "v", "1", "?"}

\* Knobs::handle_keypress: the flag is cleared first, then the key is served
handle_keypress_silent(k, c) ==
    LET k0 == [k EXCEPT !.is_op_required = FALSE]
        op(id) == [k0 EXCEPT !.is_op_required = TRUE, !.op_id = id]
    IN  CASE c = "=" -> [k0 EXCEPT !.kpreblur = inc_pre_blur(k)]
          [] c = "-" -> [k0 EXCEPT !.kpreblur = dec_pre_blur(k)]
          [] c = "}" -> [k0 EXCEPT !.nksize = inc_ksize(k)]
          [] c = "{" -> [k0 EXCEPT !.nksize = dec_ksize(k)]
          [] c = "r" -> op(OP_RECORD)
          [] c = "t" -> op(OP_TEMPLATE)
          [] c = "u" -> op(OP_UPDATE)
          [] c = "v" -> op(OP_MAKE_VIDEO)
          [] OTHER   -> k0
handle_keypress(k, c) ==
    LET k0 == [k EXCEPT !.is_op_required = FALSE]
        op(id) == [k0 EXCEPT !.is_op_required = TRUE, !.op_id = id]
    IN  CASE c = "=" -> [k0 EXCEPT !.kpreblur = inc_pre_blur(k)]
          [] c = "-" -> [k0 EXCEPT !.kpreblur = dec_pre_blur(k)]
          [] c = "}" -> [op(OP_UPDATE) EXCEPT !.nksize = inc_ksize(k)]
          [] c = "{" -> [op(OP_UPDATE) EXCEPT !.nksize = dec_ksize(k)]
          [] c = "r" -> op(OP_RECORD)
          [] c = "t" -> op(OP_TEMPLATE)
          [] c = "u" -> op(OP_UPDATE)
          [] c = "v" -> op(OP_MAKE_VIDEO)
          [] OTHER   -> k0

\* the display settings of Knobs(): clip limit 4, all channels, scale index 3
ALL_CHANNELS   == 3
CLIP_LIMIT_MAX == 20
CLIP_LIMIT_MIN == 0
vimgscale == <<250, 325, 400, 500, 625, 750, 1000>>
NewPanel  == [kcliplimit |-> 4, nchannel |-> ALL_CHANNELS, nimgscale |-> 3]

inc_clip_limit_loose(q) ==
    IF q.kcliplimit <= CLIP_LIMIT_MAX THEN q.kcliplimit + 1 ELSE q.kcliplimit
inc_clip_limit(q) ==
    IF q.kcliplimit < CLIP_LIMIT_MAX THEN q.kcliplimit + 1 ELSE q.kcliplimit
dec_clip_limit(q) ==
    IF q.kcliplimit > CLIP_LIMIT_MIN THEN q.kcliplimit - 1 ELSE q.kcliplimit
inc_img_scale(q) ==
    IF q.nimgscale < Len(vimgscale) - 1 THEN q.nimgscale + 1 ELSE q.nimgscale
dec_img_scale(q) == IF q.nimgscale > 0 THEN q.nimgscale - 1 ELSE q.nimgscale

\* the channel keys '1' .. '4' and the code ckey - '1' each one selects
ChannelKeys == {"1", "2", "3", "4"}
ChannelOf(c) == CASE c = "1" -> 0 [] c = "2" -> 1 [] c = "3" -> 2 [] c = "4" -> 3

\* every key handle_keypress serves that touches a modelled field
AllKeys == Keys \cup ChannelKeys \cup {"+", "_", "]", "["}

\* Knobs::handle_keypress on the display settings
handle_keypress_panel(q, c) ==
    CASE c \in ChannelKeys -> [q EXCEPT !.nchannel = ChannelOf(c)]
      [] c = "+" -> [q EXCEPT !.kcliplimit = inc_clip_limit(q)]
      [] c = "_" -> [q EXCEPT !.kcliplimit = dec_clip_limit(q)]
      [] c = "]" -> [q EXCEPT !.nimgscale = inc_img_scale(q)]
      [] c = "[" -> [q EXCEPT !.nimgscale = dec_img_scale(q)]
      [] OTHER   -> q

\* Knobs::get_op_flag: the flag and the op id are handed out, the flag is cleared
get_op_flag_keep(k) ==
    [result |-> k.is_op_required, ropid |-> k.op_id, knobs |-> k]
get_op_flag(k) ==
    [result |-> k.is_op_required, ropid |-> k.op_id,
     knobs |-> [k EXCEPT !.is_op_required = FALSE]]

\* get_op_flag has not been called yet
NoCall == [result |-> FALSE, ropid |-> OP_NONE]

\* the number of template files in vfiles, and their magnitude threshold
NumFiles == 5
default_mag_thr == 10

\* the table initialiser reload_template calls, as far as the parameters go:
\* they are copied into the table at build time
init_ghough_table_from_img(t, rparams) == [t EXCEPT !.params = rparams]

\* reload_template: the knobs' kernel sizes, scale 1.0, the file's magnitude
\* threshold and 8 angle steps are handed to the table initialiser
reload_template(k, t) ==
    LET kblur  == get_pre_blur(k)
        ksobel == get_ksize(k)
    IN  init_ghough_table_from_img(
            t, [kblur |-> kblur, ksobel |-> ksobel, scale |-> 100,
                mag_thr |-> default_mag_thr, ang_step |-> 8])

\* no frame has been processed yet
NoFrame == [kblur |-> 0, ksobel |-> 0]

----------------------------------------------------------------------------
(* Vote table: T_ghough_table *)

\* T_ghough_params(): kblur 7, ksobel 7, scale 1.0, mag_thr 1.0, ang_step 8.0
DefaultParams == [kblur |-> 7, ksobel |-> 7, scale |-> 100, mag_thr |-> 100, ang_step |-> 8]

\* _elem_struct(): ct(0), pt_votes(nullptr).  "allocated" tells a live array
\* from nullptr; pt_votes is the array's content
EmptyElem == [ct |-> 0, allocated |-> FALSE, pt_votes |-> << >>]

\* _elem_struct::clear()
ElemClear(e) == [e EXCEPT !.ct = 0, !.allocated = FALSE, !.pt_votes = << >>]

\* elem[256] is held sparsely: a function on the codes whose slot differs from a
\* default constructed one; every other slot of the 256 is EmptyElem
Elem(t, c) == IF c \in DOMAIN t.elem THEN t.elem[c] ELSE EmptyElem
SlotsPut(f, c, e) == [d \in (DOMAIN f) \cup {c} |-> IF d = c THEN e ELSE f[d]]
SlotsCompact(f) == [c \in {d \in DOMAIN f : f[d] # EmptyElem} |-> f[c]]

\* T_ghough_table(): params(), sz(0,0), total_votes(0), total_entries(0)
FreshTable ==
    [params |-> DefaultParams,
     sz |-> [width |-> 0, height |-> 0],
     total_votes |-> 0,
     total_entries |-> 0,
     elem |-> << >>]

\* T_ghough_table::clear()
TableClearKeepTotals(t) ==
    [t EXCEPT !.sz = [width |-> 0, height |-> 0],
              !.elem = SlotsCompact([c \in DOMAIN t.elem |-> ElemClear(t.elem[c])])]
TableClearKeepElems(t) ==
    [t EXCEPT !.sz = [width |-> 0, height |-> 0],
              !.total_votes = 0,
              !.total_entries = 0]
TableClear(t) ==
    [t EXCEPT !.sz = [width |-> 0, height |-> 0],
              !.total_votes = 0,
              !.total_entries = 0,
              !.elem = SlotsCompact([c \in DOMAIN t.elem |-> ElemClear(t.elem[c])])]

----------------------------------------------------------------------------
(* Table builder: create_ghough_table *)

\* scale bounds 0.1 and 10.0, in hundredths
SCALE_MIN == 10
SCALE_MAX == 1000

\* sanity check of the scale value
ClampNoLower(s) == IF s > SCALE_MAX THEN SCALE_MAX ELSE s
ClampScale(s) ==
    LET fac == IF s < SCALE_MIN THEN SCALE_MIN ELSE s
    IN  IF fac > SCALE_MAX THEN SCALE_MAX ELSE fac

\* static_cast<int>(fac * n): the product truncated toward zero
ScaleFloor(fac, n) == (fac * n) \div 100
ScaleTrunc(fac, n) ==
    IF n >= 0 THEN (fac * n) \div 100 ELSE 0 - ((fac * (0 - n)) \div 100)

\* the scaled offset of template pixel (i, j): a cv::Point <<x, y>>
OffsetPtSwapped(img, fac, i, j) ==
    << ScaleTrunc(fac, (img.rows \div 2) - i), ScaleTrunc(fac, (img.cols \div 2) - j) >>
OffsetPt(img, fac, i, j) ==
    LET row_offset == img.rows \div 2
        col_offset == img.cols \div 2
    IN  << ScaleTrunc(fac, col_offset - j), ScaleTrunc(fac, row_offset - i) >>

\* uint16_t increment of a vote count
VOTE_MOD == 65536

\* lookup_table[uu][offset_pt]++ on the two-level std::map
LutSetOne(lut, uu, pt) ==
    LET inner == IF uu \in DOMAIN lut THEN lut[uu] ELSE << >>
        new   == [q \in (DOMAIN inner) \cup {pt} |-> IF q = pt THEN 1 ELSE inner[q]]
    IN  [c \in (DOMAIN lut) \cup {uu} |-> IF c = uu THEN new ELSE lut[c]]
LutIncrementByte(lut, uu, pt) ==
    LET inner == IF uu \in DOMAIN lut THEN lut[uu] ELSE << >>
        old   == IF pt \in DOMAIN inner THEN inner[pt] ELSE 0
        new   == [q \in (DOMAIN inner) \cup {pt} |->
                     IF q = pt THEN (old + 1) % 256 ELSE inner[q]]
    IN  [c \in (DOMAIN lut) \cup {uu} |-> IF c = uu THEN new ELSE lut[c]]
LutIncrement(lut, uu, pt) ==
    LET inner == IF uu \in DOMAIN lut THEN lut[uu] ELSE << >>
        old   == IF pt \in DOMAIN inner THEN inner[pt] ELSE 0
        new   == [q \in (DOMAIN inner) \cup {pt} |->
                     IF q = pt THEN (old + 1) % VOTE_MOD ELSE inner[q]]
    IN  [c \in (DOMAIN lut) \cup {uu} |-> IF c = uu THEN new ELSE lut[c]]

\* the inner loop of the pixel scan: row i from column j on
RECURSIVE ScanRow(_, _, _, _, _, _)
ScanRow(img, flags, fac, i, j, lut) ==
    IF j >= img.cols THEN lut
    ELSE LET uu   == img.pix[<<i, j>>]
             next == IF FlagsGet(flags, uu)
                     THEN LutIncrement(lut, uu, OffsetPt(img, fac, i, j))
                     ELSE lut
         IN  IF next = lut THEN ScanRow(img, flags, fac, i, j + 1, lut)
             ELSE ScanRow(img, flags, fac, i, j + 1, next)

\* the pixel scan, row by row from row i on
RECURSIVE ScanPixels(_, _, _, _, _)
ScanPixels(img, flags, fac, i, lut) ==
    IF i >= img.rows THEN lut
    ELSE LET row == ScanRow(img, flags, fac, i, 0, lut)
         IN  IF row = lut THEN ScanPixels(img, flags, fac, i + 1, lut)
             ELSE ScanPixels(img, flags, fac, i + 1, row)

\* cmpCvPoint: order by x, then by y
cmpCvPoint(a, b) == (a[1] < b[1]) \/ ((a[1] = b[1]) /\ (a[2] < b[2]))

\* the keys of an inner map in iteration order
RECURSIVE SortedPts(_)
SortedPts(S) ==
    IF S = {} THEN << >>
    ELSE LET m == CHOOSE a \in S : \A b \in S \ {a} : cmpCvPoint(a, b)
         IN  <<m>> \o SortedPts(S \ {m})

\* the array new T_pt_votes[n] filled from one inner map
SlotArray(inner) ==
    LET pts == SortedPts(DOMAIN inner)
    IN  [k \in 1 .. Len(pts) |-> [pt |-> pts[k], votes |-> inner[pts[k]]]]

RECURSIVE SumVotes(_, _)
SumVotes(arr, k) == IF k > Len(arr) THEN 0 ELSE arr[k].votes + SumVotes(arr, k + 1)

\* conversion of the maps into the fixed structure, one key after the other
RECURSIVE FillSlots(_, _, _)
FillSlots(t, lut, keys) ==
    IF keys = {} THEN t
    ELSE LET key == SetMin(keys)
             arr == SlotArray(lut[key])
             n   == Len(arr)
         IN  FillSlots(
                 [t EXCEPT !.elem = SlotsPut(@, key, [ct |-> n, allocated |-> TRUE, pt_votes |-> arr]),
                           !.total_votes = @ + SumVotes(arr, 1),
                           !.total_entries = @ + n],
                 lut, keys \ {key})

create_ghough_table(img, flags, s, t) ==
    LET fac     == ClampScale(s)
        lut     == ScanPixels(img, flags, fac, 0, << >>)
        cleared == TableClear(t)
        sized   == [cleared EXCEPT !.sz = [width |-> img.cols, height |-> img.rows]]
    IN  FillSlots(sized, lut, DOMAIN lut)

----------------------------------------------------------------------------
(* Voting sweeps: apply_ghough_transform and apply_ghough_transform_allpix, *)
(* in the <CV_16U, uint16_t> instantiation                                  *)

\* uint16_t accumulator cell
ACC_MOD == 65536

\* the pixels (i, j), i in [ilo, ihi), j in [jlo, jhi), in loop order
RowMajor(ilo, ihi, jlo, jhi) ==
    LET nr == ihi - ilo
        nc == jhi - jlo
    IN  IF nr <= 0 \/ nc <= 0 THEN << >>
        ELSE [n \in 1 .. (nr * nc) |-> << ilo + ((n - 1) \div nc), jlo + ((n - 1) % nc) >>]

\* the source pixels the bounded sweep visits
BoundedPixelsByDifference(img, t) ==
    RowMajor(t.sz.height \div 2, img.rows - t.sz.height + t.sz.height \div 2,
             t.sz.width \div 2, img.cols - t.sz.width + t.sz.width \div 2)
BoundedPixels(img, t) ==
    RowMajor(t.sz.height \div 2, img.rows - t.sz.height \div 2,
             t.sz.width \div 2, img.cols - t.sz.width \div 2)

\* the source pixels the all-pixel sweep visits
AllpixPixels(img) == RowMajor(1, img.rows - 1, 1, img.cols - 1)

\* the range check of the all-pixel sweep
VoteInRangeLoose(out, mx, my) ==
    (mx >= 0) /\ (mx <= out.cols) /\ (my >= 0) /\ (my <= out.rows)
VoteInRange(out, mx, my) ==
    (mx >= 0) /\ (mx < out.cols) /\ (my >= 0) /\ (my < out.rows)

\* T * pix = rout.ptr<T>(my) + mx;  *pix += votes;
\* A target outside the accumulator is undefined behaviour: under ub = "alias"
\* the write lands on the cell the row-major address cols * my + mx falls on, if
\* any; under ub = "lost" it lands outside the accumulator's buffer.
AddVotesTwice(old, votes) == (old + 2 * votes) % ACC_MOD
AddVotes(old, votes) == (old + votes) % ACC_MOD
StoreVote(acc, mx, my, votes, ub) ==
    LET out == acc.out
        add(p) == [acc EXCEPT !.out.pix[p] = AddVotes(@, votes)]
        lin == my * out.cols + mx
    IN  IF <<my, mx>> \in DOMAIN out.pix THEN add(<<my, mx>>)
        ELSE LET strayed == [acc EXCEPT !.stray = @ \cup {<<mx, my>>}]
             IN  IF ub = "alias" /\ lin >= 0 /\ lin < out.rows * out.cols
                 THEN [strayed EXCEPT !.out.pix[<<lin \div out.cols, lin % out.cols>>] =
                                          AddVotes(@, votes)]
                 ELSE strayed

\* body of the loop over the entries: the vote of entry k of the slot of pixel (i, j)
VoteOne(acc, t, uu, i, j, k, checked, ub) ==
    LET rp == Elem(t, uu).pt_votes[k].pt
        mx == j + rp[1]
        my == i + rp[2]
        v  == Elem(t, uu).pt_votes[k].votes
    IN  IF checked /\ ~VoteInRange(acc.out, mx, my)
        THEN acc
        ELSE StoreVote(acc, mx, my, v, ub)

\* the loop over the entries k of the slot of pixel (i, j)
RECURSIVE VoteEntries(_, _, _, _, _, _, _, _)
VoteEntries(acc, t, uu, i, j, k, checked, ub) ==
    IF k > Elem(t, uu).ct THEN acc
    ELSE LET voted == VoteOne(acc, t, uu, i, j, k, checked, ub)
         IN  \* a vote leaves the count of visited pixels alone
             CASE voted.visited = acc.visited ->
                      VoteEntries(voted, t, uu, i, j, k + 1, checked, ub)

\* the loops over the visited pixels: the next one is number acc.visited + 1
RECURSIVE VotePixels(_, _, _, _, _, _)
VotePixels(acc, img, t, pixels, checked, ub) ==
    IF acc.visited >= Len(pixels) THEN acc
    ELSE LET n == acc.visited + 1
             i == pixels[n][1]
             j == pixels[n][2]
             seen == [acc EXCEPT !.visited = n]
         IN  VotePixels(VoteEntries(seen, t, img.pix[<<i, j>>], i, j, 1, checked, ub),
                        img, t, pixels, checked, ub)

\* rout = cv::Mat::zeros(rimg.size(), E), no write outside it so far
SweepStart(img) == [out |-> Zeros(img.rows, img.cols), stray |-> {}, visited |-> 0]

apply_ghough_transform(img, t, ub) ==
    VotePixels(SweepStart(img), img, t, BoundedPixels(img, t), FALSE, ub)

apply_ghough_transform_allpix(img, t) ==
    VotePixels(SweepStart(img), img, t, AllpixPixels(img), TRUE, "lost")

----------------------------------------------------------------------------
(* Inputs *)

Dims == 1 .. MaxDim

\* grayscale inputs of the encoder
GrayLevels == {0, 100, 255}
RngValues  == {0, 100, 200}
IsGrayImage(img) ==
    \E r \in Dims, c \in Dims, bg \in GrayLevels :
        IsSparseImage(img, r, c, bg, GrayLevels \ {bg}, MaxSpots)

\* encoded templates of the builder: background code 0 with a few pixels of
\* code 15 (four adjacent bits)
SpotCode == 15
\* width of the one-row strip templates: the narrowest on which a scale of 0.1
\* keeps a non-zero offset
StripCols == 2 * (100 \div SCALE_MIN)
IsTemplate(img) ==
    \/ \E r \in 1 .. MaxSide, c \in 1 .. MaxSide :
          /\ r * c <= MaxArea
          /\ IsSparseImage(img, r, c, 0, {SpotCode}, MaxSpots)
    \/ IsSparseImage(img, 1, StripCols, 0, {SpotCode}, 1)

\* membership sets: N8_4ADJ (which leaves code 0 out) and every code
Adj4Flags   == create_adjacent_bits_set(FlagsNone, N8_4ADJ)
FlagChoices == {Adj4Flags, FlagsAll}

\* requested scales: 0.01, 0.5, 1.0, 100.0
Scales == {1, 50, 100, 10000}

\* templates, membership sets, scales and live images of the sweep specification
TplDims == 1 .. MaxTplDim
IsVoteTemplate(img) ==
    \E r \in TplDims, c \in TplDims : IsSparseImage(img, r, c, 0, {SpotCode}, 1)
VoteFlags  == {Adj4Flags, FlagsAll}
VoteScales == {100, 200, 1000}
IsLiveImage(img) ==
    \E r \in 1 .. MaxSide, c \in 1 .. MaxSide, bg \in {0, SpotCode} :
        /\ r * c <= MaxArea
        /\ IsSparseImage(img, r, c, bg, {0, SpotCode} \ {bg}, 1)
UBOutcomes == {"alias", "lost"}

\* weights of the entries of a built table: 1 for an offset one template pixel has
\* alone, and as many as the pixels that the smallest scale sends to offset (0,0)
MaxEntryWeight == (2 * ((100 - 1) \div SCALE_MIN) + 1) ^ 2
EntryWeights == {1, MaxEntryWeight}

\* templates, scales and live images of the reordered sweeps
IsParTemplate(img) ==
    \E r \in 1 .. MaxParDim, c \in 1 .. MaxParDim : IsSparseImage(img, r, c, 0, {SpotCode}, 1)
ParScales == {100, 200}
IsParLiveImage(img) ==
    \E r \in 1 .. MaxParDim + 2, c \in 1 .. MaxParDim + 2 :
        /\ r * c <= MaxArea
        /\ IsSparseImage(img, r, c, 0, {SpotCode}, 1)

IdleEnc ==
    /\ rsrc = NoImage
    /\ rng = 0
    /\ rdst = NoImage

IdleBuild ==
    /\ rbgrad = NoImage
    /\ rflags = FlagsNone
    /\ scale = 100
    /\ rtable = FreshTable

IdleSweep ==
    /\ rimg = NoImage
    /\ rout = NoImage
    /\ stray = {}
    /\ visited = 0
    /\ policy = "none"

IdleVotes ==
    /\ pending = {}
    /\ ubmode = "lost"
    /\ cell = 0

IdleGrad ==
    /\ tmag = NoImage
    /\ tang = NoImage
    /\ gthr = 100
    /\ gstep = 8
    /\ rmod = NoImage
    /\ rmgo = NoImage

IdleLoop ==
    /\ knobs = NewKnobs
    /\ nfile = 0
    /\ live = NoFrame
    /\ opcall = NoCall
    /\ panel = NewPanel

IdleRest ==
    /\ adj = 0
    /\ IdleVotes
    /\ IdleGrad
    /\ IdleLoop

----------------------------------------------------------------------------
(* Operations *)

\* a call of cmp8NeighborsGTRng<uint8_t>(rsrc, rdst, rng)
Encode ==
    /\ pc = "init"
    /\ rdst' = cmp8NeighborsGTRng(rsrc, rng)
    /\ pc' = "encoded"
    /\ UNCHANGED <<rsrc, rng, buildVars, sweepVars, restVars>>

\* a call of create_adjacent_bits_set(rflags, adj) on a fresh T_256_flags
CreateSet ==
    /\ pc \in {"init", "encoded"}
    /\ rflags' = create_adjacent_bits_set(rflags, adj)
    /\ pc' = "flagged"
    /\ UNCHANGED <<rbgrad, scale, rtable, encVars, sweepVars, restVars>>

\* create_ghough_table(img_bgrad, flags, scale, rtable) on the image just encoded
BuildEncoded ==
    /\ pc = "flagged"
    /\ rdst # NoImage
    /\ rbgrad' = rdst
    /\ rtable' = create_ghough_table(rdst, rflags, scale, rtable)
    /\ pc' = "built"
    /\ UNCHANGED <<rflags, scale, encVars, sweepVars, restVars>>

\* the vote additions of a sweep: one per visited pixel (i, j) and entry k
VoteSteps(img, t, pixels) ==
    UNION {{<<pixels[n][1], pixels[n][2], k>> : k \in 1 .. Elem(t, img.pix[pixels[n]]).ct}
             : n \in 1 .. Len(pixels)}

\* a sweep whose vote additions will be applied in some other order than the
\* loops': rout is zeroed and every addition is pending
StartVotes ==
    /\ pc = "built"
    /\ IsParLiveImage(rimg')
    /\ \E pol \in {"bounded", "allpix"} :
          /\ policy' = pol
          /\ ubmode' \in IF pol = "bounded" THEN UBOutcomes ELSE {"lost"}
          /\ pending' = VoteSteps(rimg', rtable,
                                   IF pol = "bounded" THEN BoundedPixels(rimg', rtable)
                                   ELSE AllpixPixels(rimg'))
    /\ Cardinality(pending') <= MaxVotes
    /\ rout' = SweepStart(rimg').out
    /\ stray' = {}
    /\ pc' = IF pending' = {} THEN "voted" ELSE "voting"
    /\ UNCHANGED <<visited, adj, cell, gradVars, loopVars, encVars, buildVars>>

\* one pending vote addition, whichever worker holds it, as one atomic step
ApplyVote ==
    /\ pc = "voting"
    /\ \E v \in pending :
          LET acc == [out |-> rout, stray |-> stray, visited |-> visited]
              res == VoteOne(acc, rtable, rimg.pix[<<v[1], v[2]>>], v[1], v[2], v[3],
                             policy = "allpix", ubmode)
          IN  /\ rout' = res.out
              /\ stray' = res.stray
              /\ pending' = pending \ {v}
    /\ pc' = IF pending' = {} THEN "voted" ELSE "voting"
    /\ UNCHANGED <<rimg, visited, policy, adj, ubmode, cell, gradVars, loopVars, encVars, buildVars>>

\* *pix += pt_votes[k].votes, seen at one accumulator cell: a vote of weight w that
\* targets the cell
AddToCell ==
    /\ pc = "cell"
    /\ \E w \in EntryWeights : cell' = AddVotes(cell, w)
    /\ UNCHANGED <<adj, pending, ubmode, pc, gradVars, loopVars, encVars, buildVars, sweepVars>>

\* a call of apply_sobel_gradient_mask on rmod, seen from the magnitude image on
SobelMask ==
    /\ pc = "init"
    /\ rmod' = apply_sobel_gradient_mask(tmag, rmod, gthr)
    /\ pc' = "masked"
    /\ UNCHANGED <<tmag, tang, gthr, gstep, rmgo, adj, pending, ubmode, cell,
                   loopVars, encVars, buildVars, sweepVars>>

\* a call of create_masked_gradient_orientation_img, seen from the magnitude and
\* angle images on
OrientImg ==
    /\ pc = "init"
    /\ rmgo' = create_masked_gradient_orientation_img(tmag, tang, gthr, gstep)
    /\ pc' = "oriented"
    /\ UNCHANGED <<tmag, tang, gthr, gstep, rmod, adj, pending, ubmode, cell,
                   loopVars, encVars, buildVars, sweepVars>>

\* one pass of the capture loop, from the top of the while body to the call of
\* wait_and_check_keys, projected on the kernel sizes: the knobs are read, a
\* pending template or update operation reloads the table, the frame is
\* blurred with the knob's kernel size and its gradients are taken with the
\* table's Sobel size
LoopPass ==
    /\ pc = "pass"
    /\ LET kblur  == get_pre_blur(knobs)
           got    == get_op_flag(knobs)
           reload == got.result /\ got.ropid \in {OP_TEMPLATE, OP_UPDATE}
           table  == IF reload THEN reload_template(got.knobs, rtable) ELSE rtable
       IN  /\ knobs' = got.knobs
           /\ opcall' = [result |-> got.result, ropid |-> got.ropid]
           /\ nfile' = IF got.result /\ got.ropid = OP_TEMPLATE
                        THEN (nfile + 1) % NumFiles ELSE nfile
           /\ rtable' = table
           /\ live' = [kblur |-> kblur, ksobel |-> table.params.ksobel]
    /\ pc' = "keys"
    /\ UNCHANGED <<panel, rbgrad, rflags, scale, adj, pending, ubmode, cell, gradVars,
                   encVars, sweepVars>>

\* wait_and_check_keys: a key other than Esc is handed to handle_keypress
KeyPress ==
    /\ pc = "keys"
    /\ \E c \in Keys : knobs' = handle_keypress(knobs, c)
    /\ pc' = "pass"
    /\ UNCHANGED <<nfile, live, opcall, panel, adj, pending, ubmode, cell, gradVars,
                   encVars, buildVars, sweepVars>>

\* a key handed to Knobs::handle_keypress, seen on the whole Knobs object
KnobKey ==
    /\ pc = "knobs"
    /\ \E c \in AllKeys :
          /\ knobs' = handle_keypress(knobs, c)
          /\ panel' = handle_keypress_panel(panel, c)
    /\ UNCHANGED <<pc, nfile, live, opcall, adj, pending, ubmode, cell, gradVars,
                   encVars, buildVars, sweepVars>>

\* wait_and_check_keys: no key within the wait
NoKey ==
    /\ pc = "keys"
    /\ pc' = "pass"
    /\ UNCHANGED <<loopVars, adj, pending, ubmode, cell, gradVars,
                   encVars, buildVars, sweepVars>>

\* wait_and_check_keys: Esc ends the loop
KeyEsc ==
    /\ pc = "keys"
    /\ pc' = "done"
    /\ UNCHANGED <<loopVars, adj, pending, ubmode, cell, gradVars,
                   encVars, buildVars, sweepVars>>

\* the first call of create_ghough_table(rbgrad, rflags, scale, rtable)
Build ==
    /\ pc = "init"
    /\ rtable' = create_ghough_table(rbgrad, rflags, scale, rtable)
    /\ pc' = "built"
    /\ UNCHANGED <<rbgrad, rflags, scale, encVars, sweepVars, restVars>>

\* the inputs of a later call on the same table object: another scale, another
\* membership set or another template
NextInputs ==
    {<<rbgrad, rflags, s>> : s \in Scales \ {scale}}
    \cup {<<rbgrad, f, scale>> : f \in FlagChoices \ {rflags}}
    \cup {<<Transpose(rbgrad), rflags, scale>>}

\* a further call of create_ghough_table on the table built before
Rebuild ==
    /\ pc \in {"built", "rebuilt"}
    /\ \E in \in NextInputs :
          /\ rbgrad' = in[1]
          /\ rflags' = in[2]
          /\ scale' = in[3]
          /\ rtable' = create_ghough_table(in[1], in[2], in[3], rtable)
    /\ pc' = "rebuilt"
    /\ UNCHANGED <<encVars, sweepVars, restVars>>

\* the all-pixel sweep run on the encoded template itself
RoundTrip ==
    /\ pc \in {"built", "rebuilt"}
    /\ LET res == apply_ghough_transform_allpix(rbgrad, rtable)
       IN  /\ rimg' = rbgrad
           /\ rout' = res.out
           /\ stray' = res.stray
           /\ visited' = res.visited
    /\ policy' = "allpix"
    /\ pc' = "voted"
    /\ UNCHANGED <<encVars, buildVars, restVars>>

\* a call of apply_ghough_transform<CV_16U, uint16_t>(live, rout, rtable)
SweepBounded ==
    /\ pc = "built"
    /\ IsLiveImage(rimg')
    /\ \E ub \in UBOutcomes :
          LET res == apply_ghough_transform(rimg', rtable, ub)
          IN  /\ rout' = res.out
              /\ stray' = res.stray
              /\ visited' = res.visited
    /\ policy' = "bounded"
    /\ pc' = "voted"
    /\ UNCHANGED <<encVars, buildVars, restVars>>

\* a call of apply_ghough_transform_allpix<CV_16U, uint16_t>(live, rout, rtable)
SweepAllpix ==
    /\ pc = "built"
    /\ IsLiveImage(rimg')
    /\ LET res == apply_ghough_transform_allpix(rimg', rtable)
       IN  /\ rout' = res.out
           /\ stray' = res.stray
           /\ visited' = res.visited
    /\ policy' = "allpix"
    /\ pc' = "voted"
    /\ UNCHANGED <<encVars, buildVars, restVars>>

----------------------------------------------------------------------------
(* Specifications *)

\* the table builder: builds, rebuilds and the round trip on the template
Init ==
    /\ pc = "init"
    /\ IdleEnc
    /\ IsTemplate(rbgrad)
    /\ rflags \in FlagChoices
    /\ scale \in Scales
    /\ rtable = FreshTable
    /\ IdleSweep
    /\ IdleRest

Next == Build \/ Rebuild \/ RoundTrip

Spec == Init /\ [][Next]_vars

\* builds at the smallest scales from uniform templates of every size up to
\* MaxWide x MaxWide, every pixel a member
WideScales == {1, SCALE_MIN, SCALE_MIN + 5}
IsWideTemplate(img) ==
    \E r \in 1 .. MaxWide, c \in 1 .. MaxWide, code \in {0, SpotCode} :
        img = Painted(r, c, code, << >>)

InitWide ==
    /\ pc = "init"
    /\ IdleEnc
    /\ IsWideTemplate(rbgrad)
    /\ rflags = FlagsAll
    /\ scale \in WideScales
    /\ rtable = FreshTable
    /\ IdleSweep
    /\ IdleRest

NextWide == Build

SpecWide == InitWide /\ [][NextWide]_vars

\* the voting sweeps on live images
InitVote ==
    /\ pc = "init"
    /\ IdleEnc
    /\ IsVoteTemplate(rbgrad)
    /\ rflags \in VoteFlags
    /\ scale \in VoteScales
    /\ rtable = FreshTable
    /\ IdleSweep
    /\ IdleRest

NextVote == Build \/ SweepBounded \/ SweepAllpix

SpecVote == InitVote /\ [][NextVote]_vars

\* the pixel encoder
InitEnc ==
    /\ pc = "init"
    /\ IsGrayImage(rsrc)
    /\ rng \in RngValues
    /\ rdst = NoImage
    /\ IdleBuild
    /\ IdleSweep
    /\ IdleRest

NextEnc == Encode

SpecEnc == InitEnc /\ [][NextEnc]_vars

\* the membership set builder on every mask
InitFlags ==
    /\ pc = "init"
    /\ IdleEnc
    /\ IdleBuild
    /\ IdleSweep
    /\ adj \in Bytes
    /\ IdleVotes
    /\ IdleGrad
    /\ IdleLoop

NextFlags == CreateSet

SpecFlags == InitFlags /\ [][NextFlags]_vars

\* the sweeps with their vote additions reordered
InitPar ==
    /\ pc = "init"
    /\ IdleEnc
    /\ IsParTemplate(rbgrad)
    /\ rflags = FlagsAll
    /\ scale \in ParScales
    /\ rtable = FreshTable
    /\ IdleSweep
    /\ IdleRest

NextPar == Build \/ StartVotes \/ ApplyVote

SpecPar == InitPar /\ [][NextPar]_vars

\* one accumulator cell under the votes of a sweep, from rout = zeros on
InitCell ==
    /\ pc = "cell"
    /\ IdleEnc
    /\ IdleBuild
    /\ IdleSweep
    /\ IdleRest

NextCell == AddToCell

SpecCell == InitCell /\ [][NextCell]_vars

\* the gradient helpers: magnitudes, angles (just below a full turn included),
\* thresholds -0.5 .. 1.5 and requested steps below, inside and above [4, 254]
Magnitudes == {0, 1, 2}
Angles     == {0, AngleUnits \div 2, AngleUnits - (AngleUnits \div 16), AngleUnits - 1}
Thresholds == {-50, 0, 50, 100, 150}
AngSteps   == {2, 8, 254, 300}
GradCells  == Cells(1, GradPix)

InitGrad ==
    /\ pc = "init"
    /\ IdleEnc
    /\ IdleBuild
    /\ IdleSweep
    /\ adj = 0
    /\ IdleVotes
    /\ IdleLoop
    /\ \E f \in [GradCells -> Magnitudes] : tmag = [rows |-> 1, cols |-> GradPix, pix |-> f]
    /\ \E f \in [GradCells -> Angles] : tang = [rows |-> 1, cols |-> GradPix, pix |-> f]
    /\ gthr \in Thresholds
    /\ gstep \in AngSteps
    /\ rmod = [rows |-> 1, cols |-> GradPix, pix |-> [p \in GradCells |-> SpotCode]]
    /\ rmgo = NoImage

NextGrad == SobelMask \/ OrientImg

SpecGrad == InitGrad /\ [][NextGrad]_vars

\* the capture loop, from the first reload_template on
InitLoop ==
    /\ pc = "pass"
    /\ IdleEnc
    /\ rbgrad = NoImage
    /\ rflags = FlagsNone
    /\ scale = 100
    /\ rtable = reload_template(NewKnobs, FreshTable)
    /\ IdleSweep
    /\ IdleRest

NextLoop == LoopPass \/ KeyPress \/ NoKey \/ KeyEsc

SpecLoop == InitLoop /\ [][NextLoop]_vars

\* the Knobs object under key presses, from its construction on
InitKnobs ==
    /\ pc = "knobs"
    /\ IdleEnc
    /\ IdleBuild
    /\ IdleSweep
    /\ IdleRest

NextKnobs == KnobKey

SpecKnobs == InitKnobs /\ [][NextKnobs]_vars

\* the single-pixel scenario: a square image of one level with at most one pixel
\* of the other level is encoded, a membership set is made and the table is built
IsSceneImage(img) ==
    \E bg \in {0, 255} : IsSparseImage(img, SceneDim, SceneDim, bg, {255 - bg}, 1)
SceneMasks == {N8_4ADJ, 2 ^ 7}

InitScene ==
    /\ pc = "init"
    /\ IsSceneImage(rsrc)
    /\ rng \in {0, 255}
    /\ rdst = NoImage
    /\ IdleBuild
    /\ IdleSweep
    /\ adj \in SceneMasks
    /\ IdleVotes
    /\ IdleGrad
    /\ IdleLoop

NextScene == Encode \/ CreateSet \/ BuildEncoded

SpecScene == InitScene /\ [][NextScene]_vars

----------------------------------------------------------------------------
(* Properties of the table builder, checked under Spec *)

\* create_ghough_table has returned at least once
Built == pc \in {"built", "rebuilt", "voted"}

\* the pixels of the template whose code is a member
MemberPixels == {p \in DOMAIN rbgrad.pix : rbgrad.pix[p] \in rflags}
MemberPixelsOf(c) ==
    IF c \in rflags THEN {p \in DOMAIN rbgrad.pix : rbgrad.pix[p] = c} ELSE {}

\* the scale the builder is documented to use: the request pulled into [0.1, 10.0]
DocFac == IF scale < 10 THEN 10 ELSE IF scale > 1000 THEN 1000 ELSE scale

\* fac * n rounded toward zero
DocTrunc(n) == IF n < 0 THEN 0 - ((DocFac * (0 - n)) \div 100) ELSE (DocFac * n) \div 100

\* the documented offset of pixel p = <<row, col>>: <<x, y>>
DocOffset(p) ==
    << DocTrunc((rbgrad.cols \div 2) - p[2]), DocTrunc((rbgrad.rows \div 2) - p[1]) >>

\* the points and the weights stored in the slot of code c
SlotPts(c) == {Elem(rtable, c).pt_votes[k].pt : k \in 1 .. Len(Elem(rtable, c).pt_votes)}
SlotWeight(c, pt) ==
    LET arr == Elem(rtable, c).pt_votes
    IN  arr[CHOOSE k \in 1 .. Len(arr) : arr[k].pt = pt].votes

\* the part of a table a build is documented to set: sz, totals and slots
TableContent(t) ==
    [sz |-> t.sz, total_votes |-> t.total_votes, total_entries |-> t.total_entries,
     elem |-> [c \in Bytes |-> Elem(t, c)]]

\* C4: after a build, total_votes is the number of template pixels (border
\* included) whose code is a member; merging onto one scaled offset loses no vote
C4_TotalVotesCountsMembers ==
    Built => rtable.total_votes = Cardinality(MemberPixels)

\* C4 witness: a build at a scale below 1 merged several member pixels into fewer
\* entries
C4_Witness ==
    /\ Built
    /\ scale <= 10
    /\ rtable.total_votes >= 3
    /\ rtable.total_entries < rtable.total_votes

\* C5: after a build, the slot of every code c holds exactly one entry per distinct
\* offset of the member pixels of code c (scaled by the clamped scale, truncated
\* toward zero), weighted by the number of pixels mapped to it; ct is the number of
\* entries and total_entries the number of distinct (code, offset) pairs
C5_SlotsHoldDistinctOffsets ==
    Built =>
        /\ \A c \in Bytes :
              LET e    == Elem(rtable, c)
                  pts  == SlotPts(c)
                  mine == MemberPixelsOf(c)
              IN  /\ e.ct = Len(e.pt_votes)
                  /\ Cardinality(pts) = Len(e.pt_votes)
                  /\ pts = {DocOffset(p) : p \in mine}
                  /\ \A pt \in pts :
                        SlotWeight(c, pt) = Cardinality({p \in mine : DocOffset(p) = pt})
        /\ rtable.total_entries =
              Cardinality({<<rbgrad.pix[p], DocOffset(p)>> : p \in MemberPixels})

\* C5 witness: two codes are populated, an offset has a negative component that
\* truncation pulls to zero, and an entry weighs more than one vote
C5_Witness ==
    /\ Built
    /\ scale = 50
    /\ Elem(rtable, 0).ct > 0
    /\ Elem(rtable, SpotCode).ct > 0
    /\ \E p \in MemberPixels : (rbgrad.cols \div 2) - p[2] < 0
    /\ \E pt \in SlotPts(0) : SlotWeight(0, pt) > 1

\* C6: after any build, a slot is non-empty (ct > 0 or a live entry array) only if
\* its code is a member and occurs in the template; every other slot has ct = 0 and
\* no entry array
C6_NonEmptySlotsAreMembers ==
    Built =>
        \A c \in Bytes :
            LET e == Elem(rtable, c)
            IN  (e.ct > 0 \/ e.allocated \/ e.pt_votes # << >>)
                    => (c \in rflags /\ \E p \in DOMAIN rbgrad.pix : rbgrad.pix[p] = c)

\* C6 witness: a code that occurs in the template but is no member has an empty
\* slot, beside a populated one
C6_Witness ==
    /\ Built
    /\ 0 \notin rflags
    /\ \E p \in DOMAIN rbgrad.pix : rbgrad.pix[p] = 0
    /\ Elem(rtable, 0) = EmptyElem
    /\ Elem(rtable, SpotCode).ct > 0

\* C7: a build at a scale below 0.1 yields the table a build at 0.1 yields, and a
\* build at a scale above 10.0 the table a build at 10.0 yields (sz, totals and
\* every slot)
C7_ScaleClamp ==
    Built =>
        /\ scale < SCALE_MIN =>
              TableContent(rtable) =
                  TableContent(create_ghough_table(rbgrad, rflags, SCALE_MIN, FreshTable))
        /\ scale > SCALE_MAX =>
              TableContent(rtable) =
                  TableContent(create_ghough_table(rbgrad, rflags, SCALE_MAX, FreshTable))

\* C7 witness: a build at 0.01 of a strip template on which 0.1 keeps a non-zero
\* offset
C7_Witness ==
    /\ Built
    /\ scale = 1
    /\ \E c \in Bytes : \E pt \in SlotPts(c) : pt[1] # 0

\* C8: after any sequence of builds on one table object, sz, the totals and all
\* slots are those of a single build of the last inputs on a fresh table
C8_RebuildReplaces ==
    Built =>
        TableContent(rtable) =
            TableContent(create_ghough_table(rbgrad, rflags, scale, FreshTable))

\* C8 witness: a rebuild left a table with fewer populated slots than the template
\* has codes
C8_Witness ==
    /\ pc = "rebuilt"
    /\ rtable.total_votes > 0
    /\ Elem(rtable, 0) = EmptyElem
    /\ \E p \in DOMAIN rbgrad.pix : rbgrad.pix[p] = 0

----------------------------------------------------------------------------
(* Properties of the pixel encoder, checked under SpecEnc *)

\* the outermost one-pixel ring of an r x c image
BorderRing(r, c) ==
    {p \in Cells(r, c) : p[1] = 0 \/ p[1] = r - 1 \/ p[2] = 0 \/ p[2] = c - 1}

\* C10: the output of cmp8NeighborsGTRng has the dimensions of the input, its
\* outermost ring is zero, and an input with fewer than 3 rows or 3 columns gives
\* an all-zero output
C10_EncodedBorderIsZero ==
    pc = "encoded" =>
        /\ rdst.rows = rsrc.rows
        /\ rdst.cols = rsrc.cols
        /\ DOMAIN rdst.pix = Cells(rsrc.rows, rsrc.cols)
        /\ \A p \in BorderRing(rdst.rows, rdst.cols) : rdst.pix[p] = 0
        /\ (rsrc.rows < 3 \/ rsrc.cols < 3) => \A p \in DOMAIN rdst.pix : rdst.pix[p] = 0

\* C10 witness: an encoded image with a non-zero interior pixel whose input has a
\* non-zero border pixel
C10_Witness ==
    /\ pc = "encoded"
    /\ \E p \in BorderRing(rsrc.rows, rsrc.cols) : rsrc.pix[p] # 0
    /\ \E p \in DOMAIN rdst.pix : rdst.pix[p] # 0

\* the byte whose set bits are the L circularly contiguous bits r, r+1, ..., r+L-1
RECURSIVE Run(_, _)
Run(L, r) == IF L = 0 THEN 0 ELSE 2 ^ (r % 8) + Run(L - 1, r + 1)

\* the number of set bits of the byte a
PopCount(a) == Cardinality({k \in 0 .. 7 : Bit(a, k) = 1})

\* C13: after create_adjacent_bits_set on an empty set with mask m, v is a member
\* iff v is a circular rotation of L contiguous low bits for some L in 1..8 with
\* bit L-1 of m set; there are at most 8 * (set bits of m) members and 0 is none
C13_AdjacentBitsSet ==
    pc = "flagged" =>
        /\ \A v \in Bytes :
              FlagsGet(rflags, v) <=>
                  \E L \in 1 .. 8, r \in 0 .. 7 : Bit(adj, L - 1) = 1 /\ v = Run(L, r)
        /\ Cardinality({v \in Bytes : FlagsGet(rflags, v)}) <= 8 * PopCount(adj)
        /\ ~FlagsGet(rflags, 0)

\* C13 on N8_4ADJ: exactly the 8 bytes with 4 circularly contiguous set bits, the
\* wrapped ones included
C13_Witness ==
    /\ pc = "flagged"
    /\ adj = N8_4ADJ
    /\ rflags = {15, 30, 60, 120, 240, 225, 195, 135}

\* the compass neighbours of the header diagram, by bit: E, SE, S, SW, W, NW, N, NE
\* as (row step, column step), rows growing southward
Compass(k) ==
    CASE k = 0 -> <<0, 1>>
      [] k = 1 -> <<1, 1>>
      [] k = 2 -> <<1, 0>>
      [] k = 3 -> <<1, -1>>
      [] k = 4 -> <<0, -1>>
      [] k = 5 -> <<-1, -1>>
      [] k = 6 -> <<-1, 0>>
      [] k = 7 -> <<-1, 1>>
SrcNeighbour(p, k) == rsrc.pix[<<p[1] + Compass(k)[1], p[2] + Compass(k)[2]>>]
SrcInterior == (1 .. rsrc.rows - 2) \X (1 .. rsrc.cols - 2)

\* max - min of the 3x3 neighbourhood of p, centre included
Range3x3(p) ==
    LET vals == {rsrc.pix[p]} \cup {SrcNeighbour(p, k) : k \in 0 .. 7}
    IN  (CHOOSE a \in vals : \A b \in vals : a >= b)
          - (CHOOSE a \in vals : \A b \in vals : a <= b)

\* the plain greater-than code of p
PlainCode(p) ==
    LET b(k) == IF rsrc.pix[p] > SrcNeighbour(p, k) THEN 2 ^ k ELSE 0
    IN  b(0) + b(1) + b(2) + b(3) + b(4) + b(5) + b(6) + b(7)

\* C11: for every interior pixel that is not range-gated, output bit k is 1 iff the
\* centre is strictly greater than compass neighbour k (bit0 = E ... bit7 = NE);
\* the output is 255 iff the centre is strictly greater than all 8 neighbours
C11_BitsAreGreaterThanNeighbours ==
    pc = "encoded" =>
        \A p \in SrcInterior :
            Range3x3(p) >= rng =>
                /\ \A k \in 0 .. 7 :
                      (Bit(rdst.pix[p], k) = 1) <=> (rsrc.pix[p] > SrcNeighbour(p, k))
                /\ (rdst.pix[p] = 255) <=>
                      (\A k \in 0 .. 7 : rsrc.pix[p] > SrcNeighbour(p, k))

\* C11 witness: an encoded interior pixel that beats its east neighbour, ties with
\* another neighbour and is beaten by none to the west
C11_Witness ==
    /\ pc = "encoded"
    /\ \E p \in SrcInterior :
          /\ Range3x3(p) >= rng
          /\ rsrc.pix[p] > SrcNeighbour(p, 0)
          /\ rsrc.pix[p] = SrcNeighbour(p, 4)
          /\ rdst.pix[p] = 1

\* C12: for every interior pixel the output is 0 when max - min of its 3x3
\* neighbourhood is below rng and the plain greater-than code otherwise; with
\* rng = 0 the output is the plain greater-than code everywhere
C12_RangeGating ==
    pc = "encoded" =>
        /\ \A p \in SrcInterior :
              rdst.pix[p] = IF Range3x3(p) < rng THEN 0 ELSE PlainCode(p)
        /\ rng = 0 => \A p \in SrcInterior : rdst.pix[p] = PlainCode(p)

\* C12 witness: a pixel whose plain code is not 0 was masked by the threshold
C12_Witness ==
    /\ pc = "encoded"
    /\ rng > 0
    /\ \E p \in SrcInterior :
          /\ Range3x3(p) < rng
          /\ PlainCode(p) # 0
          /\ rdst.pix[p] = 0

\* C12 witness of the boundary: max - min equals the threshold and the pixel is kept
C12_WitnessBoundary ==
    /\ pc = "encoded"
    /\ rng > 0
    /\ \E p \in SrcInterior : Range3x3(p) = rng /\ rdst.pix[p] # 0

----------------------------------------------------------------------------
(* Properties of the voting sweeps, checked under SpecVote (C9 under Spec) *)

Swept(which) == pc = "voted" /\ policy = which

\* the source pixels each sweep is documented to visit
AllpixVisited ==
    {p \in DOMAIN rimg.pix : /\ 1 <= p[1] /\ p[1] <= rimg.rows - 2
                             /\ 1 <= p[2] /\ p[2] <= rimg.cols - 2}
BoundedVisited ==
    {p \in DOMAIN rimg.pix :
        /\ rtable.sz.height \div 2 <= p[1]
        /\ p[1] < rimg.rows - (rtable.sz.height \div 2)
        /\ rtable.sz.width \div 2 <= p[2]
        /\ p[2] < rimg.cols - (rtable.sz.width \div 2)}
Visited == IF policy = "bounded" THEN BoundedVisited ELSE AllpixVisited

\* a vote is a visited pixel p with the number k of an entry of its code's slot;
\* its target is the cell <<x, y>> and its weight the entry's count
VotesOf(V) == UNION {{<<p, k>> : k \in 1 .. Elem(rtable, rimg.pix[p]).ct} : p \in V}
VoteTarget(v) ==
    LET pt == Elem(rtable, rimg.pix[v[1]]).pt_votes[v[2]].pt
    IN  << v[1][2] + pt[1], v[1][1] + pt[2] >>
VoteWeight(v) == Elem(rtable, rimg.pix[v[1]]).pt_votes[v[2]].votes
TargetInBounds(xy) ==
    0 <= xy[1] /\ xy[1] < rout.cols /\ 0 <= xy[2] /\ xy[2] < rout.rows

RECURSIVE SumWeights(_)
SumWeights(S) ==
    IF S = {} THEN 0
    ELSE LET v == CHOOSE w \in S : TRUE IN VoteWeight(v) + SumWeights(S \ {v})

RECURSIVE SumCells(_)
SumCells(S) ==
    IF S = {} THEN 0
    ELSE LET q == CHOOSE w \in S : TRUE IN rout.pix[q] + SumCells(S \ {q})

\* C1: every vote of the bounded sweep targets a cell inside the accumulator, for
\* every table create_ghough_table produces (any template size, any scale) and
\* every live image
C1_BoundedVotesInBounds ==
    Swept("bounded") =>
        /\ \A v \in VotesOf(BoundedVisited) : TargetInBounds(VoteTarget(v))
        /\ stray = {}

\* C1: the case the bounded sweep does keep: a table built at a scale of at most
\* 1.0 sends no vote outside the accumulator
C1_InBoundsUpToUnitScale ==
    (Swept("bounded") /\ scale <= 100) =>
        /\ \A v \in VotesOf(BoundedVisited) : TargetInBounds(VoteTarget(v))
        /\ stray = {}

\* C1 witness: a bounded sweep that cast votes from a table built at scale 1.0
C1_Witness ==
    /\ Swept("bounded")
    /\ scale = 100
    /\ Cardinality(VotesOf(BoundedVisited)) >= 2

\* C2: the all-pixel sweep never writes outside the accumulator; a vote is applied
\* iff its target is inside, so the accumulator has the dimensions of the live
\* image and holds exactly the weight of the votes whose target is inside
C2_AllpixStaysInside ==
    Swept("allpix") =>
        /\ stray = {}
        /\ rout.rows = rimg.rows
        /\ rout.cols = rimg.cols
        /\ DOMAIN rout.pix = Cells(rimg.rows, rimg.cols)
        /\ SumCells(DOMAIN rout.pix) =
              SumWeights({v \in VotesOf(AllpixVisited) : TargetInBounds(VoteTarget(v))})

\* C2 witness: an all-pixel sweep that applied a vote and discarded others: one
\* aimed at the first column or row past the accumulator, one at a negative
\* coordinate
C2_Witness ==
    /\ Swept("allpix")
    /\ \E v \in VotesOf(AllpixVisited) : TargetInBounds(VoteTarget(v))
    /\ \E v \in VotesOf(AllpixVisited) :
          VoteTarget(v)[1] = rout.cols \/ VoteTarget(v)[2] = rout.rows
    /\ \E v \in VotesOf(AllpixVisited) : VoteTarget(v)[1] < 0 \/ VoteTarget(v)[2] < 0

\* C3: after a sweep every accumulator cell <<x, y>> holds the sum of the weights
\* of the votes of the visited pixels that target it (0 where none does); the
\* all-pixel sweep visits rows 1..rows-2 and columns 1..cols-2, the bounded sweep
\* rows [sz.height/2, rows - sz.height/2) and columns [sz.width/2, cols - sz.width/2)
C3_CellsSumTheirVotes ==
    pc = "voted" =>
        \A q \in DOMAIN rout.pix :
            rout.pix[q] =
                SumWeights({v \in VotesOf(Visited) : VoteTarget(v) = <<q[2], q[1]>>})

\* C3: what the all-pixel sweep keeps of it
C3_AllpixCellsSumTheirVotes ==
    Swept("allpix") =>
        \A q \in DOMAIN rout.pix :
            rout.pix[q] =
                SumWeights({v \in VotesOf(AllpixVisited) : VoteTarget(v) = <<q[2], q[1]>>})

\* C3 witness: an all-pixel sweep left a cell that sums two votes
C3_Witness ==
    /\ Swept("allpix")
    /\ \E q \in DOMAIN rout.pix :
          Cardinality({v \in VotesOf(AllpixVisited) : VoteTarget(v) = <<q[2], q[1]>>}) >= 2

\* the centre of the template and its interior
Centre == << rbgrad.rows \div 2, rbgrad.cols \div 2 >>
Interior == (1 .. rbgrad.rows - 2) \X (1 .. rbgrad.cols - 2)
CentreIsStrictMax ==
    \A q \in DOMAIN rout.pix : q # Centre => rout.pix[Centre] > rout.pix[q]

\* C9 as stated: for every template, a build at scale 1.0 followed by the voting
\* transform on the same encoded image leaves the centre cell strictly greater
\* than every other cell
C9_RoundTripStrictMax ==
    (pc = "voted" /\ scale = 100) => CentreIsStrictMax

\* C9 amended: the same, for templates whose encoded image has at least one member
\* pixel and none on its outermost ring
C9_RoundTripStrictMaxInterior ==
    (pc = "voted" /\ scale = 100 /\ MemberPixels # {} /\ MemberPixels \subseteq Interior)
        => CentreIsStrictMax

\* C9 witness: a round trip of a template with two interior member pixels that
\* left votes off the centre as well
C9_Witness ==
    /\ pc = "voted"
    /\ scale = 100
    /\ Cardinality(MemberPixels) >= 2
    /\ MemberPixels \subseteq Interior
    /\ \E q \in DOMAIN rout.pix : q # Centre /\ rout.pix[q] > 0

\* the size of the table and of the live image of a bounded sweep
TplH == rtable.sz.height
TplW == rtable.sz.width
Span(n, m) == IF n > 2 * (m \div 2) THEN n - 2 * (m \div 2) ELSE 0

\* C14 as stated: the bounded sweep visits (rows - height) * (cols - width) source
\* pixels when rows > height and cols > width, and none otherwise
C14_BoundedVisitsDifference ==
    Swept("bounded") =>
        visited = IF rimg.rows > TplH /\ rimg.cols > TplW
                  THEN (rimg.rows - TplH) * (rimg.cols - TplW)
                  ELSE 0

\* C14 amended: the bounded sweep visits
\* max(0, rows - 2 * (height div 2)) * max(0, cols - 2 * (width div 2)) source
\* pixels, which is (rows - height) * (cols - width) when rows >= height,
\* cols >= width and height and width are both even
C14_BoundedVisitsSymmetricMargins ==
    Swept("bounded") =>
        /\ visited = Span(rimg.rows, TplH) * Span(rimg.cols, TplW)
        /\ (TplH % 2 = 0 /\ TplW % 2 = 0 /\ rimg.rows >= TplH /\ rimg.cols >= TplW)
              => visited = (rimg.rows - TplH) * (rimg.cols - TplW)

\* C14 witness: a bounded sweep of a live image as large as a template of odd
\* height and width visited a pixel
C14_Witness ==
    /\ Swept("bounded")
    /\ TplH = 3 /\ TplW = 3
    /\ rimg.rows = 3 /\ rimg.cols = 3
    /\ visited = 1

\* C14 witness of the even case: a template of even sides under a larger image
C14_WitnessEven ==
    /\ Swept("bounded")
    /\ TplH = 2 /\ TplW = 2
    /\ rimg.rows = 3 /\ rimg.cols = 4
    /\ visited = 2

----------------------------------------------------------------------------
(* The single-pixel scenario, checked under SpecScene *)

SceneCentre == <<SceneDim \div 2, SceneDim \div 2>>
WhiteWithBlackCentre ==
    [rows |-> SceneDim, cols |-> SceneDim,
     pix |-> [p \in Cells(SceneDim, SceneDim) |-> IF p = SceneCentre THEN 0 ELSE 255]]
BlackWithWhiteCentre ==
    [rows |-> SceneDim, cols |-> SceneDim,
     pix |-> [p \in Cells(SceneDim, SceneDim) |-> IF p = SceneCentre THEN 255 ELSE 0]]

\* the scenario's steps have run on img: threshold 0, mask m, scale 1.0
SceneDone(img, m) ==
    pc = "built" /\ rsrc = img /\ rng = 0 /\ adj = m /\ scale = 100

PopulatedSlots == {c \in Bytes : Elem(rtable, c) # EmptyElem}
SingleEntry255 ==
    /\ PopulatedSlots = {255}
    /\ Elem(rtable, 255).ct = 1
    /\ Elem(rtable, 255).pt_votes = << [pt |-> <<0, 0>>, votes |-> 1] >>
    /\ rtable.total_votes = 1
    /\ rtable.total_entries = 1

\* C15 as stated: the all-white image with one black centre pixel, encoded with
\* threshold 0 and built with N8_4ADJ at scale 1.0, gives the single slot 255 with
\* the single entry (0,0) of weight 1 and totals of 1
C15_WhiteImageGivesSlot255 ==
    SceneDone(WhiteWithBlackCentre, N8_4ADJ) => SingleEntry255

\* C15 amended: that scenario gives an empty table (the centre encodes to 0 and
\* its 8 neighbours to one-bit codes, none of them a member); the single slot 255
\* with entry (0,0) of weight 1 is what the all-black image with one white centre
\* pixel gives under a membership set that admits 255 (mask bit 7)
C15_SinglePixelScenario ==
    /\ SceneDone(WhiteWithBlackCentre, N8_4ADJ) =>
          /\ PopulatedSlots = {}
          /\ rtable.total_votes = 0
          /\ rtable.total_entries = 0
          /\ rbgrad.pix[SceneCentre] = 0
          /\ {rbgrad.pix[p] : p \in DOMAIN rbgrad.pix} = {0} \cup {2 ^ k : k \in 0 .. 7}
    /\ SceneDone(BlackWithWhiteCentre, 2 ^ 7) => SingleEntry255
    /\ SceneDone(BlackWithWhiteCentre, N8_4ADJ) => PopulatedSlots = {}

\* C15 witness: the scenario of the statement has run
C15_Witness ==
    /\ SceneDone(WhiteWithBlackCentre, N8_4ADJ)
    /\ rtable.sz = [width |-> SceneDim, height |-> SceneDim]
    /\ \E p \in DOMAIN rbgrad.pix : rbgrad.pix[p] = 16

\* C15 witness of the inverted scenario
C15_WitnessInverted ==
    /\ SceneDone(BlackWithWhiteCentre, 2 ^ 7)
    /\ rbgrad.pix[SceneCentre] = 255

----------------------------------------------------------------------------
(* Reordered sweeps, checked under SpecPar *)

\* the accumulators the sequential row-major sweep can leave on rimg
SequentialOutcomes ==
    IF policy = "allpix"
    THEN {apply_ghough_transform_allpix(rimg, rtable).out}
    ELSE {apply_ghough_transform(rimg, rtable, ub).out : ub \in UBOutcomes}

C16_OrderIndependentInBounds ==
    (pc = "voted" /\ policy # "none" /\ stray = {}) => SequentialOutcomes = {rout}

----------------------------------------------------------------------------
(* Accumulator monotonicity, checked under SpecCell (and SpecPar) *)

\* C17: the accumulator is zero before the first vote and no step of a sweep
\* lowers a cell, the additions being uint16_t additions
C17_CellNeverLowered == (cell = 0) /\ [][cell' >= cell]_vars

\* C17: what holds: a vote lowers a cell only by wrapping around 2^16
C17_LoweredOnlyByWrap ==
    [][cell' < cell => \E w \in EntryWeights : cell + w >= ACC_MOD /\ cell' = cell + w - ACC_MOD]_vars

\* C17 on whole accumulators whose cells stay below 2^16: no addition of a
\* reordered sweep lowers a cell that is inside the accumulator
C17_SmallSweepsNeverLower ==
    [][(pc = "voting") => \A q \in DOMAIN rout.pix : rout'.pix[q] >= rout.pix[q]]_vars

\* C17 witness: a cell one vote away from 2^16
C17_Witness ==
    /\ pc = "cell"
    /\ cell = ACC_MOD - 1

----------------------------------------------------------------------------
(* Gradient helpers, checked under SpecGrad *)

Masked   == pc = "masked"
Oriented == pc = "oriented"

\* the image handed to apply_sobel_gradient_mask, every pixel of it nonzero
ModInput == [p \in GradCells |-> SpotCode]

\* the quantized orientation code of pixel p, the magnitude mask left aside
PlainAngCode(p) == AngCode(tang.pix[p], ClampAngStep(gstep))

\* C18: with mag_thr >= 1.0 neither helper zeroes a pixel:
\* apply_sobel_gradient_mask leaves its image unchanged and
\* create_masked_gradient_orientation_img keeps every pixel's quantized code;
\* a pixel is zeroed only for thresholds inside (0, 1)
C18_MagThrOneDisablesMasking ==
    /\ (Masked /\ gthr >= 100) => (rmod.pix = ModInput)
    /\ (Oriented /\ gthr >= 100) => \A p \in GradCells : rmgo.pix[p] = PlainAngCode(p)
    /\ (Masked /\ rmod.pix # ModInput) => (gthr > 0 /\ gthr < 100)
    /\ (Oriented /\ \E p \in GradCells : rmgo.pix[p] # PlainAngCode(p)) => (gthr > 0 /\ gthr < 100)

\* C18, the part that holds: apply_sobel_gradient_mask changes nothing for a
\* threshold outside [0, 1)
C18_SobelMaskOffOutsideRange ==
    (Masked /\ (gthr >= 100 \/ gthr < 0)) => (rmod.pix = ModInput)

\* C18, what the orientation image does instead: a threshold >= 1.0 zeroes
\* every pixel, and a threshold of 0 zeroes the pixels of zero magnitude
C18_OrientationMaskedAtOne ==
    /\ (Oriented /\ gthr >= 100) => \A p \in GradCells : rmgo.pix[p] = 0
    /\ (Oriented /\ gthr = 0) =>
           \A p \in GradCells : (rmgo.pix[p] = 0) <=> (tmag.pix[p] = 0)

\* C18 witness: the orientation image of a picture with a gradient, built with
\* the default threshold 1.0, is all zero
C18_Witness ==
    /\ Oriented
    /\ gthr = 100
    /\ MaxOf(tmag) > 0
    /\ \A p \in GradCells : rmgo.pix[p] = 0 /\ PlainAngCode(p) # 0

\* pixel p passes the magnitude mask
Survives(p) == MagMask(tmag, gthr)[p] = 255

\* C19: for every requested ang_step and every angle in [0, 2*pi) the code of
\* a pixel that survives the magnitude mask lies in [2, ang_step + 1] with
\* ang_step clamped into [4, 254]; it is never 0, so that 0 occurs only for
\* masked-out pixels, and it never exceeds 255
C19_CodeWithinStepPlusOne ==
    Oriented =>
        \A p \in GradCells :
            /\ Survives(p) =>
                   /\ rmgo.pix[p] >= 2
                   /\ rmgo.pix[p] <= ClampAngStep(gstep) + 1
                   /\ rmgo.pix[p] <= 255
            /\ (rmgo.pix[p] = 0) => ~Survives(p)

\* C19, what the conversion gives: rounding to nearest takes the angles of the
\* last half step up to ang_step + 2, and 256 is saturated to 255
C19_CodeWithinStepPlusTwo ==
    Oriented =>
        \A p \in GradCells :
            /\ Survives(p) =>
                   /\ rmgo.pix[p] >= 2
                   /\ rmgo.pix[p] <= ClampAngStep(gstep) + 2
                   /\ rmgo.pix[p] <= 255
            /\ (rmgo.pix[p] = 0) <=> ~Survives(p)

\* C19 witness: a surviving pixel whose angle is just below a full turn gets
\* the code ang_step + 2
C19_Witness ==
    /\ Oriented
    /\ \E p \in GradCells :
           /\ Survives(p)
           /\ tang.pix[p] < AngleUnits
           /\ rmgo.pix[p] = ClampAngStep(gstep) + 2

\* C19 witness: at the largest step the code 256 of the last half step is
\* saturated to 255, the code of the half step before it
C19_WitnessSaturated ==
    /\ Oriented
    /\ ClampAngStep(gstep) = ANG_STEP_MAX
    /\ \E p \in GradCells :
           /\ Survives(p)
           /\ RoundHalfEven(ANG_STEP_MAX * tang.pix[p], AngleUnits) + 2 = 256
           /\ rmgo.pix[p] = 255

----------------------------------------------------------------------------
(* The capture loop's preprocessing, checked under SpecLoop *)

\* a voting pass has just ended
PassDone == pc = "keys"

\* C20: at every voting pass, after any sequence of key presses, the blur
\* kernel size applied to the live frame is table.params.kblur and the Sobel
\* kernel size applied to it is table.params.ksobel
C20_LiveMatchesTable ==
    PassDone =>
        /\ live.kblur = rtable.params.kblur
        /\ live.ksobel = rtable.params.ksobel

\* C20, the part that holds: the Sobel size is the table's at every pass, and
\* the blur size is the knob's
C20_SobelMatchesTable ==
    PassDone =>
        /\ live.ksobel = rtable.params.ksobel
        /\ live.kblur = get_pre_blur(knobs)

\* C20, the part that holds: the pass that reloads the table blurs the frame
\* as the template was blurred
C20_BlurMatchesAfterReload ==
    [][(pc = "pass" /\ knobs.is_op_required /\ knobs.op_id \in {OP_TEMPLATE, OP_UPDATE})
           => live'.kblur = rtable'.params.kblur]_vars

\* C20 witness: a pass whose frame was blurred with another kernel size than
\* the template of the table it was matched against
C20_Witness ==
    /\ PassDone
    /\ live.kblur # rtable.params.kblur
    /\ live.ksobel = rtable.params.ksobel

----------------------------------------------------------------------------
(* The margin of the bounded sweep's accumulator, checked under SpecVote *)

\* the cells within half the template's dimensions of the border of the
\* accumulator
InMargin(q) ==
    \/ q[1] < TplH \div 2
    \/ q[1] >= rout.rows - TplH \div 2
    \/ q[2] < TplW \div 2
    \/ q[2] >= rout.cols - TplW \div 2

\* C21: after a bounded sweep every cell of the accumulator within half the
\* template's dimensions of the border is 0, for every table and live image
C21_BoundedMarginIsZero ==
    Swept("bounded") =>
        \A q \in DOMAIN rout.pix : InMargin(q) => rout.pix[q] = 0

\* C21, what the sweep keeps out of the margin: the source pixels it reads
C21_SourcesOutsideMargin ==
    Swept("bounded") =>
        \A v \in VotesOf(BoundedVisited) : ~InMargin(v[1])

\* C21 witness: a bounded sweep with a table built at scale 1.0, all of whose
\* votes were inside the accumulator, left a vote on a margin cell
C21_Witness ==
    /\ Swept("bounded")
    /\ scale = 100
    /\ stray = {}
    /\ \E q \in DOMAIN rout.pix : InMargin(q) /\ rout.pix[q] > 0

----------------------------------------------------------------------------
(* The score normalisation, checked under SpecVote *)

\* the largest cell of the accumulator: qmax of minMaxLoc(img_match, ...)
MaxCell == SetMax({rout.pix[q] : q \in DOMAIN rout.pix})

\* C22: after either sweep every cell of the accumulator is at most
\* table.total_votes, so that max_cell_value / total_votes lies in [0, 1]
\* whenever total_votes > 0
C22_CellsAtMostTotalVotes ==
    pc = "voted" =>
        /\ \A q \in DOMAIN rout.pix : rout.pix[q] <= rtable.total_votes
        /\ rtable.total_votes > 0 => (0 <= MaxCell /\ MaxCell <= rtable.total_votes)

\* C22 witness: a sweep left a cell that holds all the votes of a table with
\* several entries
C22_Witness ==
    /\ pc = "voted"
    /\ rtable.total_votes >= 2
    /\ rtable.total_entries >= 2
    /\ MaxCell = rtable.total_votes

----------------------------------------------------------------------------
(* The weights of the entries, checked under SpecWide *)

\* the number of template pixels of code c whose scaled offset is pt, as a
\* plain integer
SharedBy(c, pt) == Cardinality({p \in MemberPixelsOf(c) : DocOffset(p) = pt})

\* C23: every entry a build stores has a positive weight equal to the exact
\* number of template pixels mapped to its code and offset: the 16-bit counter
\* never wraps, at most 19 x 19 pixels sharing one scaled offset
C23_WeightsDoNotWrap ==
    Built =>
        \A c \in Bytes :
            \A k \in 1 .. Elem(rtable, c).ct :
                LET e == Elem(rtable, c).pt_votes[k]
                IN  /\ e.votes > 0
                    /\ e.votes = SharedBy(c, e.pt)
                    /\ SharedBy(c, e.pt) <= MaxEntryWeight
                    /\ MaxEntryWeight < VOTE_MOD

\* C23 witness: a build at the smallest scale stored an entry shared by
\* 19 x 19 pixels
C23_Witness ==
    /\ Built
    /\ scale <= SCALE_MIN
    /\ \E c \in Bytes :
          \E k \in 1 .. Elem(rtable, c).ct :
              Elem(rtable, c).pt_votes[k].votes = MaxEntryWeight

----------------------------------------------------------------------------
(* The one-shot operation flag, checked under SpecLoop *)

\* the operation keys and the operation each one asks for
OpKeys == {"t", "u", "r", "v", "{", "}"}
OpOfKey(c) ==
    CASE c = "t" -> OP_TEMPLATE
      [] c \in {"u", "{", "}"} -> OP_UPDATE
      [] c = "r" -> OP_RECORD
      [] c = "v" -> OP_MAKE_VIDEO

\* a step of wait_and_check_keys back to the top of the loop, and a pass
KeysStep == pc = "keys" /\ pc' = "pass"
PassStep == pc = "pass" /\ pc' = "keys"

\* C24: every operation key press is followed by exactly one call of
\* get_op_flag that returns true with that key's op id before the next key
\* press is handled: the flag is clear whenever a key is handled, an operation
\* key sets it with its own op id, only an operation key sets it, and the
\* pass that follows hands out the flag and the op id and clears the flag, so
\* that a second call without an operation key in between returns false
C24_OneShotOperationFlag ==
    /\ [](pc = "keys" => ~knobs.is_op_required)
    /\ [][KeysStep =>
              /\ \A c \in OpKeys :
                     knobs' = handle_keypress(knobs, c) =>
                         knobs'.is_op_required /\ knobs'.op_id = OpOfKey(c)
              /\ knobs'.is_op_required =>
                     \E c \in OpKeys : knobs' = handle_keypress(knobs, c)]_vars
    /\ [][PassStep =>
              /\ opcall'.result = knobs.is_op_required
              /\ opcall'.ropid = knobs.op_id
              /\ ~knobs'.is_op_required]_vars

\* C24 witness: the pass after a 'v' key press got the flag with
\* OP_MAKE_VIDEO, and the flag is clear again
C24_Witness ==
    /\ pc = "keys"
    /\ opcall = [result |-> TRUE, ropid |-> OP_MAKE_VIDEO]
    /\ ~knobs.is_op_required
    /\ knobs.op_id = OP_MAKE_VIDEO

----------------------------------------------------------------------------
(* The table's Sobel size against the knob's, checked under SpecLoop *)

\* C25: at every voting pass table.params.ksobel is the knobs' current Sobel
\* kernel size: the table is loaded before the first pass, and a '{', '}',
\* 't' or 'u' key press is followed by reload_template before the next vote
C25_TableSobelIsKnobSobel ==
    /\ [](PassDone => rtable.params.ksobel = get_ksize(knobs))
    /\ [][(PassStep /\ knobs.is_op_required /\ knobs.op_id \in {OP_TEMPLATE, OP_UPDATE})
              => rtable' = reload_template(knobs', rtable)]_vars

\* C25 witness: a pass voted with a table reloaded for another Sobel size
\* than the one the loop started with
C25_Witness ==
    /\ PassDone
    /\ opcall = [result |-> TRUE, ropid |-> OP_UPDATE]
    /\ get_ksize(knobs) # get_ksize(NewKnobs)
    /\ rtable.params.ksobel = get_ksize(knobs)

----------------------------------------------------------------------------
(* The ranges of the knobs, checked under SpecKnobs *)

\* the knobs' values after key c
AfterKey(c) == handle_keypress(knobs, c)
PanelAfterKey(c) == handle_keypress_panel(panel, c)

\* C26: after any sequence of key presses the pre-blur kernel size is odd and
\* within [1, 35], the clip limit within [0, 20], the image-scale index within
\* [0, 6] and the Sobel-size index within [0, 4], both valid indices of their
\* vectors, and the channel within 0 .. 3; an increment at the upper bound and
\* a decrement at the lower bound leave the value unchanged
C26_KnobsStayInRange ==
    /\ knobs.kpreblur % 2 = 1
    /\ knobs.kpreblur \in 1 .. 35
    /\ panel.kcliplimit \in 0 .. 20
    /\ panel.nimgscale \in 0 .. 6
    /\ panel.nimgscale + 1 \in DOMAIN vimgscale
    /\ knobs.nksize \in 0 .. 4
    /\ knobs.nksize + 1 \in DOMAIN vksize
    /\ panel.nchannel \in 0 .. 3
    /\ knobs.kpreblur = 35 => AfterKey("=").kpreblur = 35
    /\ knobs.kpreblur = 1 => AfterKey("-").kpreblur = 1
    /\ panel.kcliplimit = 20 => PanelAfterKey("+").kcliplimit = 20
    /\ panel.kcliplimit = 0 => PanelAfterKey("_").kcliplimit = 0
    /\ panel.nimgscale = 6 => PanelAfterKey("]").nimgscale = 6
    /\ panel.nimgscale = 0 => PanelAfterKey("[").nimgscale = 0
    /\ knobs.nksize = 4 => AfterKey("}").nksize = 4
    /\ knobs.nksize = 0 => AfterKey("{").nksize = 0

\* C26 witness: every knob brought to a bound of its range by key presses
C26_Witness ==
    /\ pc = "knobs"
    /\ knobs.kpreblur = 35
    /\ panel.kcliplimit = 20
    /\ panel.nimgscale = 0
    /\ knobs.nksize = 0
    /\ panel.nchannel = 0

====
